---- MODULE Spec2Model ----
(***************************************************************************)
(* SimpleTextBrowser of autogen/browser_utils.py as a state machine.       *)
(*                                                                         *)
(* Strings are sequences of one-character strings, so that prefix tests,   *)
(* slicing, lower-casing, substring search and the page splitter work on   *)
(* characters exactly as the Python code does.  Offsets into the page      *)
(* content are 0-based and page ranges are half-open, as in the source:    *)
(* Python's content[i] is content[i + 1] here.                             *)
(***************************************************************************)
EXTENDS Integers, Sequences, FiniteSets, TLC

\* ------------------------------------------------------------------ bounds
\* Longest response body (in characters) the environment serves.
MaxLen == 2
\* Largest viewport_size a browser is constructed with (the smallest is 1).
MaxViewport == 2
\* Longest history: construction appends one entry, every navigate one more.
MaxHist == 3
\* Most renderers callers register after construction.
MaxCustom == 2

\* ------------------------------------------------------------ string basics
Whitespace == {" ", "\t", "\r", "\n"}

Last(seq) == seq[Len(seq)]

Min(a, b) == IF a <= b THEN a ELSE b
Max(a, b) == IF a >= b THEN a ELSE b

\* str.startswith
StartsWith(s, p) == Len(s) >= Len(p) /\ SubSeq(s, 1, Len(p)) = p

\* Python's s[i:] (0-based i).
From(s, i) == SubSeq(s, i + 1, Len(s))

\* Python's needle in hay.
Contains(hay, needle) ==
    \E i \in 0..(Len(hay) - Len(needle)) : SubSeq(hay, i + 1, i + Len(needle)) = needle

LowerChar(c) ==
    CASE c = "T" -> "t" [] c = "E" -> "e" [] c = "X" -> "x" [] c = "P" -> "p"
      [] c = "L" -> "l" [] c = "A" -> "a" [] c = "I" -> "i" [] c = "N" -> "n"
      [] c = "H" -> "h" [] c = "M" -> "m" [] c = "C" -> "c" [] c = "O" -> "o"
      [] OTHER -> c

\* str.lower()
Lower(s) == [i \in 1..Len(s) |-> LowerChar(s[i])]

RECURSIVE LStrip(_)
LStrip(s) == IF s # <<>> /\ Head(s) \in Whitespace THEN LStrip(Tail(s)) ELSE s

RECURSIVE RStrip(_)
RStrip(s) ==
    IF s # <<>> /\ s[Len(s)] \in Whitespace THEN RStrip(SubSeq(s, 1, Len(s) - 1)) ELSE s

\* str.strip()
Strip(s) == RStrip(LStrip(s))

\* 0-based offset of the first occurrence of character c in s, or -1 (str.find).
RECURSIVE FindFrom(_, _, _)
FindFrom(s, c, i) ==
    IF i >= Len(s) THEN -1 ELSE IF s[i + 1] = c THEN i ELSE FindFrom(s, c, i + 1)

Find(s, c) == FindFrom(s, c, 0)

\* str.split(c): the pieces between occurrences of c, empty pieces kept.
RECURSIVE Split(_, _)
SplitAt(s, c, i) == IF i < 0 THEN <<s>> ELSE <<SubSeq(s, 1, i)>> \o Split(From(s, i + 1), c)
Split(s, c) == SplitAt(s, c, Find(s, c))

\* c.join(parts)
RECURSIVE Join(_, _)
Join(parts, c) ==
    IF parts = <<>> THEN <<>>
    ELSE IF Len(parts) = 1 THEN parts[1]
    ELSE parts[1] \o <<c>> \o Join(Tail(parts), c)

\* Decimal digits of a natural number, as str(n) gives them.
DigitChar(d) ==
    CASE d = 0 -> "0" [] d = 1 -> "1" [] d = 2 -> "2" [] d = 3 -> "3" [] d = 4 -> "4"
      [] d = 5 -> "5" [] d = 6 -> "6" [] d = 7 -> "7" [] d = 8 -> "8" [] OTHER -> "9"

RECURSIVE Str(_)
Str(n) == IF n < 10 THEN <<DigitChar(n)>> ELSE Str(n \div 10) \o <<DigitChar(n % 10)>>

\* All strings over an alphabet of at most a given length.
RECURSIVE StringsOver(_, _)
StringsOver(alphabet, n) ==
    IF n = 0 THEN {<<>>}
    ELSE StringsOver(alphabet, n - 1)
         \cup {Append(s, c) : s \in StringsOver(alphabet, n - 1), c \in alphabet}

\* ------------------------------------------------------------ string literals
S_about_blank == <<"a", "b", "o", "u", "t", ":", "b", "l", "a", "n", "k">>
S_bing == <<"b", "i", "n", "g", ":">>
S_http == <<"h", "t", "t", "p", ":">>
S_https == <<"h", "t", "t", "p", "s", ":">>
S_text_plain == <<"t", "e", "x", "t", "/", "p", "l", "a", "i", "n">>
S_text_html == <<"t", "e", "x", "t", "/", "h", "t", "m", "l">>
S_application_pdf == <<"a", "p", "p", "l", "i", "c", "a", "t", "i", "o", "n", "/", "p", "d", "f">>

S_download_complete == <<"D", "o", "w", "n", "l", "o", "a", "d", " ", "c", "o", "m", "p", "l", "e", "t", "e", ".">>
S_downloaded == <<"D", "o", "w", "n", "l", "o", "a", "d", "e", "d", " ", "'">>
S_to == <<"'", " ", "t", "o", " ", "'">>
S_quote_dot == <<"'", ".">>
S_unsupported == <<"E", "r", "r", "o", "r", " ", "-", " ", "U", "n", "s", "u", "p", "p", "o", "r", "t", "e", "d", " ", "C", "o", "n", "t", "e", "n", "t", "-", "T", "y", "p", "e", " ", "'">>
S_quote == <<"'">>
S_error == <<"E", "r", "r", "o", "r", " ">>
S_error_heading == <<"#", "#", " ", "E", "r", "r", "o", "r", " ">>
S_nn == <<"\n", "\n">>
S_unhandled_title == <<"E", "r", "r", "o", "r", " ", "-", " ", "U", "n", "h", "a", "n", "d", "l", "e", "d", " ", "_", "f", "e", "t", "c", "h", "_", "p", "a", "g", "e">>
S_unhandled == <<"E", "r", "r", "o", "r", " ", "-", " ", "U", "n", "h", "a", "n", "d", "l", "e", "d", " ", "_", "f", "e", "t", "c", "h", "_", "p", "a", "g", "e", ":", "\n", "U", "r", "l", ":", " ">>
S_unhandled_error == <<"E", "r", "r", "o", "r", " ", "-", " ", "U", "n", "h", "a", "n", "d", "l", "e", "d", " ", "_", "f", "e", "t", "c", "h", "_", "p", "a", "g", "e", " ", "e", "r", "r", "o", "r", ":", "\n", "U", "r", "l", ":", " ">>
S_status_code == <<"\n", "S", "t", "a", "t", "u", "s", " ", "c", "o", "d", "e", ":", " ">>
S_content_type == <<"\n", "C", "o", "n", "t", "e", "n", "t", "-", "t", "y", "p", "e", ":", " ">>
S_search == <<" ", "-", " ", "S", "e", "a", "r", "c", "h">>
S_bing_found_1 == <<"A", " ", "B", "i", "n", "g", " ", "s", "e", "a", "r", "c", "h", " ", "f", "o", "r", " ", "'">>
S_bing_found_2 == <<"'", " ", "f", "o", "u", "n", "d", " ">>
S_bing_found_3 == <<" ", "r", "e", "s", "u", "l", "t", "s", ":", "\n", "\n", "#", "#", " ", "W", "e", "b", " ", "R", "e", "s", "u", "l", "t", "s", "\n">>
S_news_results == <<"\n", "\n", "#", "#", " ", "N", "e", "w", "s", " ", "R", "e", "s", "u", "l", "t", "s", ":", "\n">>
S_ext_download == <<".", "d", "o", "w", "n", "l", "o", "a", "d">>
S_application_zip == <<"a", "p", "p", "l", "i", "c", "a", "t", "i", "o", "n", "/", "z", "i", "p">>
S_Text_Plain == <<"T", "e", "x", "t", "/", "P", "l", "a", "i", "n">>

\* Addresses callers navigate to, download folder and API key of the model.
U_page == <<"h", "t", "t", "p", "s", ":", "/", "/", "a", ".", "c", "o", "m", "/", "d", "i", "r", "/", "p", "a", "g", "e">>
U_root == <<"h", "t", "t", "p", "s", ":", "/", "/", "a", ".", "c", "o", "m", "/">>
U_relative == <<".", ".", "/", "x">>
U_upper == <<"H", "T", "T", "P", ":", "/", "/", "a", ".", "c", "o", "m", "/", "x">>
U_search == <<"b", "i", "n", "g", ":", " ", "c", "a", "t", "s", " ">>
S_dl == <<"/", "d", "l">>
S_key == <<"k">>

\* ---------------------------------------------------------------- urllib.parse
\* urlsplit/urlunsplit/urljoin of the standard library, for URLs without
\* parameters, query or fragment (no address of the model has any).
SchemeChars ==
    {"a", "b", "c", "d", "e", "f", "g", "h", "i", "j", "k", "l", "m", "n", "o", "p", "q",
     "r", "s", "t", "u", "v", "w", "x", "y", "z", "A", "B", "C", "D", "E", "F", "G", "H",
     "I", "J", "K", "L", "M", "N", "O", "P", "Q", "R", "S", "T", "U", "V", "W", "X", "Y",
     "Z", "0", "1", "2", "3", "4", "5", "6", "7", "8", "9", "+", "-", "."}

Letters == SchemeChars \ {"0", "1", "2", "3", "4", "5", "6", "7", "8", "9", "+", "-", "."}

Uses_relative == {<<>>, <<"h", "t", "t", "p">>, <<"h", "t", "t", "p", "s">>,
                  <<"f", "t", "p">>, <<"f", "i", "l", "e">>}

Uses_netloc == Uses_relative

SplitResult(scheme, netloc, path) == [scheme |-> scheme, netloc |-> netloc, path |-> path]

\* The netloc is what follows "//" up to the next "/" (at offset j of `after`).
SplitNetlocAt(scheme, after, j) ==
    IF j < 0 THEN SplitResult(scheme, after, <<>>)
    ELSE SplitResult(scheme, SubSeq(after, 1, j), From(after, j))

SplitNetloc(scheme, rest) ==
    IF StartsWith(rest, <<"/", "/">>)
    THEN SplitNetlocAt(scheme, From(rest, 2), Find(From(rest, 2), "/"))
    ELSE SplitResult(scheme, <<>>, rest)

\* url[:i] is a scheme if i > 0, it starts with a letter and holds scheme characters.
HasScheme(url, i) ==
    /\ i > 0
    /\ url[1] \in Letters
    /\ \A k \in 1..i : url[k] \in SchemeChars

SplitSchemeAt(url, default_scheme, i) ==
    IF HasScheme(url, i) THEN SplitNetloc(Lower(SubSeq(url, 1, i)), From(url, i + 1))
    ELSE SplitNetloc(default_scheme, url)

\* urlsplit(url, default_scheme): [scheme, netloc, path].
urlsplit(url, default_scheme) == SplitSchemeAt(url, default_scheme, Find(url, ":"))

WithNetloc(scheme, netloc, path) ==
    \/ netloc # <<>>
    \/ (scheme # <<>> /\ scheme \in Uses_netloc /\ ~StartsWith(path, <<"/", "/">>))

AddScheme(scheme, url) == IF scheme # <<>> THEN scheme \o <<":">> \o url ELSE url

urlunsplit(scheme, netloc, path) ==
    IF WithNetloc(scheme, netloc, path)
    THEN AddScheme(scheme, <<"/", "/">> \o netloc
                           \o (IF path # <<>> /\ path[1] # "/" THEN <<"/">> ELSE <<>>) \o path)
    ELSE AddScheme(scheme, path)

\* The dot-segment removal loop of urljoin: ".." pops (a pop of the empty list is
\* ignored), "." is skipped, anything else is appended.
RECURSIVE ResolveSegments(_, _)
ResolveSegments(segments, resolved) ==
    IF segments = <<>> THEN resolved
    ELSE IF Head(segments) = <<".", ".">>
    THEN ResolveSegments(Tail(segments),
                         IF resolved = <<>> THEN resolved
                         ELSE SubSeq(resolved, 1, Len(resolved) - 1))
    ELSE IF Head(segments) = <<".">> THEN ResolveSegments(Tail(segments), resolved)
    ELSE ResolveSegments(Tail(segments), Append(resolved, Head(segments)))

\* segments[1:-1] = filter(None, segments[1:-1])
FilterInner(segments) ==
    IF Len(segments) < 3 THEN segments
    ELSE <<segments[1]>>
         \o SelectSeq(SubSeq(segments, 2, Len(segments) - 1), LAMBDA x : x # <<>>)
         \o <<segments[Len(segments)]>>

\* base_parts: the segments of the base path without its last one, unless that is empty.
BaseParts(parts) ==
    IF parts[Len(parts)] # <<>> THEN SubSeq(parts, 1, Len(parts) - 1) ELSE parts

JoinSegments(bpath, path) ==
    FilterInner(IF path[1] = "/" THEN Split(path, "/")
                ELSE BaseParts(Split(bpath, "/")) \o Split(path, "/"))

\* A last segment "." or ".." leaves a trailing slash.
ResolvedPath(segments, resolved) ==
    IF segments[Len(segments)] \in {<<".">>, <<".", ".">>}
    THEN Join(Append(resolved, <<>>), "/")
    ELSE Join(resolved, "/")

OrRoot(path) == IF path = <<>> THEN <<"/">> ELSE path

JoinPath(scheme, netloc, segments) ==
    urlunsplit(scheme, netloc, OrRoot(ResolvedPath(segments, ResolveSegments(segments, <<>>))))

JoinSplit(url, b, u) ==
    IF u.scheme # b.scheme \/ u.scheme \notin Uses_relative THEN url
    ELSE IF u.scheme \in Uses_netloc /\ u.netloc # <<>>
    THEN urlunsplit(u.scheme, u.netloc, u.path)
    ELSE IF u.path = <<>> THEN urlunsplit(u.scheme, b.netloc, b.path)
    ELSE JoinPath(u.scheme, b.netloc, JoinSegments(b.path, u.path))

JoinBase(url, b) == JoinSplit(url, b, urlsplit(url, b.scheme))

urljoin(base, url) ==
    IF base = <<>> THEN url
    ELSE IF url = <<>> THEN base
    ELSE JoinBase(url, urlsplit(base, <<>>))

\* os.path.basename(urlparse(url).path)
UrlBasename(url) == Last(Split(urlsplit(url, <<>>).path, "/"))

\* ------------------------------------------------------------------- values
\* Optional[str]: Python's None, or a string.
None == [some |-> FALSE, text |-> <<>>]
Some(s) == [some |-> TRUE, text |-> s]

\* bool(x) of an Optional[str]: None and "" are false.
Truthy(x) == x.some /\ x.text # <<>>

\* ------------------------------------------------------------- environment
\* What requests.get(url, stream=True) followed by raise_for_status() gives:
\*   "ok"          a response with a success status;
\*   "http_error"  raise_for_status raised HTTPError, which carries the response;
\*   "no_response" a RequestException without a response (connection failure, or
\*                 requests refusing the URL).
\* doc_title is the string of the <title> element the body has when parsed as HTML
\* (None: no such element); text is the decoded body text.
Alphabet == {"a", " "}
Texts == StringsOver(Alphabet, MaxLen)
\* The body of the responses whose body is not what the model varies.
FixedText == <<"a", " ", "a">>
DocTitle == <<"T">>

NoReply == [kind |-> "no_response", status_code |-> 0, content_type |-> <<>>,
            doc_title |-> None, text |-> <<>>]

Reply(kind, status, ct, title, text) ==
    [kind |-> kind, status_code |-> status, content_type |-> ct, doc_title |-> title,
     text |-> text]

OkReplies ==
    {Reply("ok", 200, S_Text_Plain, None, t) : t \in Texts}
    \cup {Reply("ok", 200, S_text_html, Some(DocTitle), t) : t \in StringsOver(Alphabet, MaxLen - 1)}
    \cup {Reply("ok", 200, ct, None, FixedText) :
            ct \in {S_text_html, S_application_pdf, S_application_zip, <<>>}}

ErrorReplies ==
    {Reply("http_error", st, S_text_html, Some(DocTitle), FixedText) : st \in {404, 500}}
    \cup {Reply("http_error", st, ct, None, FixedText) :
            st \in {404, 500}, ct \in {S_text_html, S_Text_Plain}}

Replies == OkReplies \cup ErrorReplies \cup {NoReply}

\* requests refuses a URL that has no http(s) scheme or no host before any
\* network traffic (MissingSchema, InvalidSchema, InvalidURL).
AcceptedSplit(u) ==
    u.scheme \in {<<"h", "t", "t", "p">>, <<"h", "t", "t", "p", "s">>} /\ u.netloc # <<>>

RequestsAccepts(url) == AcceptedSplit(urlsplit(url, <<>>))

\* Answers of the search API: a result set, or a failed request.
Link(name, url, snippet) == [name |-> name, url |-> url, snippet |-> snippet]
WebPage(name, url, snippet, deepLinks) ==
    [name |-> name, url |-> url, snippet |-> snippet, deepLinks |-> deepLinks]

NoSearch == [kind |-> "error", webPages |-> <<>>, has_news |-> FALSE, news |-> <<>>]

SearchReplies ==
    {NoSearch,
     [kind |-> "ok",
      webPages |-> <<WebPage(<<"A">>, <<"u">>, <<"s">>, <<Link(<<"D">>, <<"v">>, None)>>),
                     WebPage(<<"B">>, <<"w">>, <<"s", " ", "s">>, <<>>)>>,
      has_news |-> FALSE, news |-> <<>>],
     [kind |-> "ok",
      webPages |-> <<WebPage(<<"A">>, <<"u">>, <<"s">>, <<Link(<<"D">>, <<"v">>, None)>>)>>,
      has_news |-> TRUE, news |-> <<Link(<<"N">>, <<"n">>, Some(<<"d">>))>>]}

\* str(uuid.uuid4()): names that differ from call to call.
Uuids == {<<"u", "1">>, <<"u", "2">>}

\* ---------------------------------------------------------------- renderers
\* A registered renderer: its class, for a caller's renderer the content-type
\* fragment it claims ("" claims every response), and the ordinal of its
\* registration in its list (1 = registered first).
Renderer(cls, fragment, ordinal) == [cls |-> cls, fragment |-> fragment, ordinal |-> ordinal]

\* The result of render_page: a TextRendererResult, or the exception raised;
\* written is the file the call created, if any.
Rendered(title, content) ==
    [raised |-> "none", title |-> title, page_content |-> content, written |-> None]
Raised(exception) ==
    [raised |-> exception, title |-> None, page_content |-> <<>>, written |-> None]

PlainTextRenderer_claim_responsibility(content_type) ==
    Contains(Lower(content_type), S_text_plain)

PlainTextRenderer_render_page(response) == Rendered(None, response.text)

HtmlRenderer_claim_responsibility(content_type) ==
    Contains(Lower(content_type), S_text_html)

\* re.sub(r"\n{2,}", "\n\n", text): a run of newlines longer than two becomes two.
RECURSIVE CollapseNewlines(_)
CollapseNewlines(s) ==
    IF Len(s) < 3 THEN s
    ELSE IF s[1] = "\n" /\ s[2] = "\n" /\ s[3] = "\n" THEN CollapseNewlines(Tail(s))
    ELSE <<s[1]>> \o CollapseNewlines(Tail(s))

\* The Markdown text of the document: the body text with blank lines collapsed
\* and the ends stripped.
HtmlText(text) == Strip(CollapseNewlines(text))

\* soup.title is None for a document without <title>, and soup.title.string
\* then raises AttributeError.
HtmlRenderer_render_page(response) ==
    IF ~response.doc_title.some THEN Raised("AttributeError")
    ELSE Rendered(response.doc_title, HtmlText(response.text))

PdfRenderer_claim_responsibility(content_type) ==
    Contains(Lower(content_type), S_application_pdf)

PdfRenderer_render_page(response) == Rendered(None, response.text)

DownloadRenderer_claim_responsibility(folder) == Truthy(folder)

\* pathvalidate.sanitize_filename: characters no file name may hold are dropped.
InvalidFilenameChars == {"/", "\\", ":", "*", "?", "\"", "<", ">", "|"}
sanitize_filename(name) == SelectSeq(name, LAMBDA c : c \notin InvalidFilenameChars)

\* mimetypes.guess_extension
ExtensionOf(type) ==
    CASE type = S_text_html -> Some(<<".", "h", "t", "m", "l">>)
      [] type = S_text_plain -> Some(<<".", "t", "x", "t">>)
      [] type = S_application_pdf -> Some(<<".", "p", "d", "f">>)
      [] type = S_application_zip -> Some(<<".", "z", "i", "p">>)
      [] OTHER -> None

guess_extension(content_type) == ExtensionOf(Lower(content_type))

\* os.path.abspath(os.path.join(folder, fname)) for an absolute folder.
DownloadPath(folder, fname) == IF fname = <<>> THEN folder ELSE folder \o <<"/">> \o fname

\* fname: the sanitized basename of the URL path; None only when pathvalidate is
\* not installed (the NameError is caught).
SafeName(url, has_pathvalidate) ==
    IF has_pathvalidate THEN Some(Strip(sanitize_filename(UrlBasename(url)))) ELSE None

\* extension = mimetypes.guess_extension(content_type), ".download" if None.
Extension(guessed) == IF guessed.some THEN guessed.text ELSE S_ext_download

\* if fname is None: fname = str(uuid.uuid4()) + extension
FileName(fname, content_type, uuid) ==
    IF fname.some THEN fname.text ELSE uuid \o Extension(guess_extension(content_type))

\* open(download_path, "wb") and the copy of the body; an empty fname makes
\* download_path the folder itself, and open() raises IsADirectoryError.
WriteDownload(url, folder, fname) ==
    IF fname = <<>> THEN Raised("IsADirectoryError")
    ELSE [raised |-> "none",
          title |-> Some(S_download_complete),
          page_content |-> S_downloaded \o url \o S_to \o DownloadPath(folder, fname)
                           \o S_quote_dot,
          written |-> Some(DownloadPath(folder, fname))]

DownloadRenderer_render_page(response, url, folder, has_pathvalidate, uuid) ==
    WriteDownload(url, folder.text,
                  FileName(SafeName(url, has_pathvalidate), response.content_type, uuid))

\* f"Error - Unsupported Content-Type '{content_type}'", as title and as content.
Titled(message) == Rendered(Some(message), message)

FallbackPageRenderer_render_page(response) ==
    Titled(S_unsupported \o response.content_type \o S_quote)

\* res.title = f"Error {status_code}"; res.page_content = f"## Error {status_code}\n\n..."
ErrorPage(status_code, res) ==
    IF res.raised # "none" THEN res
    ELSE Rendered(Some(S_error \o Str(status_code)),
                  S_error_heading \o Str(status_code) \o S_nn \o res.page_content)

FallbackErrorRenderer_render_page(response) ==
    IF Contains(Lower(response.content_type), S_text_html)
    THEN ErrorPage(response.status_code, HtmlRenderer_render_page(response))
    ELSE ErrorPage(response.status_code, Rendered(None, response.text))

\* A renderer registered by a caller: claims a response whose content type
\* holds its fragment, titles the page with its own class name and shows the
\* body text.
CustomRenderer_render_page(renderer, response) ==
    Rendered(Some(<<renderer.cls>>), response.text)

claim_responsibility(renderer, content_type, folder) ==
    CASE renderer.cls = "PlainTextRenderer" -> PlainTextRenderer_claim_responsibility(content_type)
      [] renderer.cls = "HtmlRenderer" -> HtmlRenderer_claim_responsibility(content_type)
      [] renderer.cls = "PdfRenderer" -> PdfRenderer_claim_responsibility(content_type)
      [] renderer.cls = "DownloadRenderer" -> DownloadRenderer_claim_responsibility(folder)
      [] renderer.cls = "FallbackPageRenderer" -> TRUE
      [] renderer.cls = "FallbackErrorRenderer" -> TRUE
      [] OTHER -> Contains(Lower(content_type), renderer.fragment)

render_page(renderer, response, url, folder, has_pathvalidate, uuid) ==
    CASE renderer.cls = "PlainTextRenderer" -> PlainTextRenderer_render_page(response)
      [] renderer.cls = "HtmlRenderer" -> HtmlRenderer_render_page(response)
      [] renderer.cls = "PdfRenderer" -> PdfRenderer_render_page(response)
      [] renderer.cls = "DownloadRenderer" ->
            DownloadRenderer_render_page(response, url, folder, has_pathvalidate, uuid)
      [] renderer.cls = "FallbackPageRenderer" -> FallbackPageRenderer_render_page(response)
      [] renderer.cls = "FallbackErrorRenderer" -> FallbackErrorRenderer_render_page(response)
      [] OTHER -> CustomRenderer_render_page(renderer, response)

\* A registry that appends: the oldest registration stays at the front.
AppendLast(renderers, renderer) == Append(renderers, renderer)

\* list.insert(0, renderer): the newest registration is at the front.
Insert0(renderers, renderer) == <<renderer>> \o renderers

register_page_renderer(renderers, cls, fragment) ==
    Insert0(renderers, Renderer(cls, fragment, Len(renderers) + 1))

register_error_renderer(renderers, cls, fragment) ==
    Insert0(renderers, Renderer(cls, fragment, Len(renderers) + 1))

\* A loop that lets the last renderer that claims render.
RECURSIVE LastClaimFrom(_, _, _, _)
LastClaimFrom(renderers, i, content_type, folder) ==
    IF i > Len(renderers) THEN 0
    ELSE IF LastClaimFrom(renderers, i + 1, content_type, folder) # 0
    THEN LastClaimFrom(renderers, i + 1, content_type, folder)
    ELSE IF claim_responsibility(renderers[i], content_type, folder) THEN i
    ELSE 0

\* The for loop of _fetch_page: the index of the first renderer of the list that
\* claims the response, 0 if none does.
RECURSIVE FirstClaimFrom(_, _, _, _)
FirstClaimFrom(renderers, i, content_type, folder) ==
    IF i > Len(renderers) THEN 0
    ELSE IF claim_responsibility(renderers[i], content_type, folder) THEN i
    ELSE FirstClaimFrom(renderers, i + 1, content_type, folder)

FirstClaim(renderers, content_type, folder) == FirstClaimFrom(renderers, 1, content_type, folder)

\* A pagination that extends a page to the end of the content.
WholeRest(content, end_idx) == Len(content)

\* A pagination that cuts at the nominal size, in the middle of a word or not.
NominalEnd(content, end_idx) == end_idx

\* A pagination that keeps the first viewport only.
FirstViewportOnly(content, size, start_idx, pages) == <<<<0, Min(size, Len(content))>>>>

\* ---------------------------------------------------------------- pagination
\* while end_idx < len(content) and content[end_idx - 1] not in whitespace: end_idx += 1
RECURSIVE AdjustEnd(_, _)
AdjustEnd(content, end_idx) ==
    IF end_idx < Len(content) /\ content[end_idx] \notin Whitespace
    THEN AdjustEnd(content, end_idx + 1)
    ELSE end_idx

\* The outer while loop of _split_pages.
RECURSIVE SplitFrom(_, _, _, _)
\* A loop that emits an empty range ahead of each page.
EmptyRangeFirst(content, size, start_idx, end_idx, pages) ==
    SplitFrom(content, size, end_idx,
              pages \o <<<<start_idx, start_idx>>, <<start_idx, end_idx>>>>)

\* self.viewport_pages.append((start_idx, end_idx)); start_idx = end_idx
NextPage(content, size, start_idx, end_idx, pages) ==
    SplitFrom(content, size, end_idx, Append(pages, <<start_idx, end_idx>>))

SplitFrom(content, size, start_idx, pages) ==
    IF start_idx < Len(content)
    THEN NextPage(content, size, start_idx,
                  AdjustEnd(content, Min(start_idx + size, Len(content))), pages)
    ELSE pages

\* A pagination that splits the content of any address.
SplitAnyAddress(address, content, size) ==
    IF Len(content) = 0 THEN <<<<0, 0>>>> ELSE SplitFrom(content, size, 0, <<>>)

_split_pages(address, content, size) ==
    IF ~StartsWith(address, S_http) /\ ~StartsWith(address, S_https)
    THEN <<<<0, Len(content)>>>>
    ELSE IF Len(content) = 0 THEN <<<<0, 0>>>>
    ELSE SplitFrom(content, size, 0, <<>>)

\* -------------------------------------------------------------------- state
VARIABLES
    history,                \* self.history
    page_title,             \* self.page_title
    _page_content,          \* self._page_content
    viewport_pages,         \* self.viewport_pages: <<start, end>> pairs
    viewport_current_page,  \* self.viewport_current_page
    viewport_size,          \* self.viewport_size
    downloads_folder,       \* self.downloads_folder
    bing_api_key,           \* self.bing_api_key
    _page_renderers,        \* self._page_renderers
    _error_renderers,       \* self._error_renderers
    IS_PDF_CAPABLE,         \* pdfminer could be imported
    HAS_PATHVALIDATE,       \* pathvalidate could be imported
    files,                  \* the files written under the downloads folder
    call                    \* the last call of set_address and what it met

vars == <<history, page_title, _page_content, viewport_pages, viewport_current_page,
          viewport_size, downloads_folder, bing_api_key, _page_renderers,
          _error_renderers, IS_PDF_CAPABLE, HAS_PATHVALIDATE, files, call>>

config == <<viewport_size, downloads_folder, bing_api_key, IS_PDF_CAPABLE, HAS_PATHVALIDATE>>

\* The record of a call: the operation and its argument, the exception it
\* raised ("none" if it returned), the URL handed to requests.get, the response
\* met (without its body text), whether the search API was requested, the
\* renderer list the response was dispatched on, how many renderers of it
\* (from the front) were asked to claim, the renderers whose render_page was
\* invoked and the file the call wrote.
NoResponse == [kind |-> "none", status_code |-> 0, content_type |-> <<>>, doc_title |-> None]

ResponseOf(reply) ==
    [kind |-> reply.kind, status_code |-> reply.status_code,
     content_type |-> reply.content_type, doc_title |-> reply.doc_title]

Call(op, arg) ==
    [op |-> op, arg |-> arg, raised |-> "none", url |-> None, response |-> NoResponse,
     api_called |-> FALSE, dispatch |-> "none", asked |-> 0, rendered |-> <<>>,
     written |-> None]

\* The browser object at the start of a call.
Self(op, arg) ==
    [history |-> history, page_title |-> page_title, page_content |-> _page_content,
     viewport_pages |-> viewport_pages, viewport_current_page |-> viewport_current_page,
     files |-> files, call |-> Call(op, arg)]

\* An exception that takes the viewport back to the first page on its way out.
RaiseAndRewind(self, exception) ==
    [self EXCEPT !.call.raised = exception, !.viewport_current_page = 0]

raise(self, exception) == [self EXCEPT !.call.raised = exception]

\* ------------------------------------------------------------ page state
\* if self.viewport_current_page >= len(self.viewport_pages): ... = len(...) - 1
Clamped(current_page, pages) ==
    IF current_page >= Len(pages) THEN Len(pages) - 1 ELSE current_page

WithPages(self, content, pages) ==
    [self EXCEPT !.page_content = content,
                 !.viewport_pages = pages,
                 !.viewport_current_page = Clamped(@, pages)]

_set_page_content(self, content) ==
    WithPages(self, content, _split_pages(Last(self.history), content, viewport_size))

\* A page_down that does not stop at the last page.
UnclampedDown(current_page, pages) == current_page + 1

page_down(current_page, pages) == Min(current_page + 1, Len(pages) - 1)

\* A page_up that does not stop at the first page.
UnclampedUp(current_page) == current_page - 1

page_up(current_page) == Max(current_page - 1, 0)

\* The viewport property: page_content[bounds[0]:bounds[1]].
viewport(content, pages, current_page) ==
    SubSeq(content, pages[current_page + 1][1] + 1, pages[current_page + 1][2])

\* ------------------------------------------------------------------ search
\* f"{idx}. [{name}]({url})\n{snippet}"
Snippet(idx, name, url, snippet) ==
    Str(idx) \o <<".", " ", "[">> \o name \o <<"]", "(">> \o url \o <<")", "\n">> \o snippet

\* The inner loop over page["deepLinks"]: the snippets, numbered after idx
\* (a deep link without a snippet shows '').
RECURSIVE DeepLinkSnippets(_, _)
DeepLinkSnippets(links, idx) ==
    IF links = <<>> THEN <<>>
    ELSE <<Snippet(idx + 1, Head(links).name, Head(links).url, Head(links).snippet.text)>>
         \o DeepLinkSnippets(Tail(links), idx + 1)

\* A numbering that counts the web results only and leaves their deep links out
\* of the running count.
RECURSIVE ParentsCounted(_, _)
ParentsCounted(pages, idx) ==
    IF pages = <<>> THEN <<>>
    ELSE <<Snippet(idx + 1, Head(pages).name, Head(pages).url, Head(pages).snippet)>>
         \o DeepLinkSnippets(Head(pages).deepLinks, idx + 1)
         \o ParentsCounted(Tail(pages), idx + 1)

\* The loop over results["webPages"]["value"]: a page takes the next number,
\* its deep links the numbers after it.
RECURSIVE WebSnippets(_, _)
WebSnippets(pages, idx) ==
    IF pages = <<>> THEN <<>>
    ELSE <<Snippet(idx + 1, Head(pages).name, Head(pages).url, Head(pages).snippet)>>
         \o DeepLinkSnippets(Head(pages).deepLinks, idx + 1)
         \o WebSnippets(Tail(pages), idx + 1 + Len(Head(pages).deepLinks))

\* The loop over results["news"]["value"].
RECURSIVE NewsSnippets(_, _)
NewsSnippets(items, idx) ==
    IF items = <<>> THEN <<>>
    ELSE <<Snippet(idx + 1, Head(items).name, Head(items).url, Head(items).snippet.text)>>
         \o NewsSnippets(Tail(items), idx + 1)

\* "\n\n".join(snippets)
RECURSIVE JoinBlank(_)
JoinBlank(snippets) ==
    IF snippets = <<>> THEN <<>>
    ELSE IF Len(snippets) = 1 THEN snippets[1]
    ELSE snippets[1] \o S_nn \o JoinBlank(Tail(snippets))

SearchText(query, web_snippets, news_snippets) ==
    S_bing_found_1 \o query \o S_bing_found_2
    \o Str(Len(web_snippets) + Len(news_snippets)) \o S_bing_found_3
    \o JoinBlank(web_snippets)
    \o (IF Len(news_snippets) > 0 THEN S_news_results \o JoinBlank(news_snippets)
        ELSE <<>>)

\* idx goes on counting from the web snippets into the news snippets.
NewsAfter(results, web_snippets) ==
    IF results.has_news THEN NewsSnippets(results.news, Len(web_snippets)) ELSE <<>>

WithNews(query, results, web_snippets) ==
    SearchText(query, web_snippets, NewsAfter(results, web_snippets))

SearchContent(query, results) == WithNews(query, results, WebSnippets(results.webPages, 0))

\* A search that requests the API before it looks for the key.
RequestBeforeKey(self, query, search) ==
    IF ~bing_api_key.some
    THEN raise([self EXCEPT !.call.api_called = TRUE], "ValueError")
    ELSE IF search.kind # "ok"
    THEN raise([self EXCEPT !.call.api_called = TRUE], "RequestException")
    ELSE _set_page_content([self EXCEPT !.call.api_called = TRUE,
                                        !.page_title = Some(query \o S_search)],
                           SearchContent(query, search))

\* _bing_api_call raises ValueError without a key and otherwise requests the
\* API; a failed request propagates.
_bing_search(self, query, search) ==
    IF ~bing_api_key.some THEN raise(self, "ValueError")
    ELSE IF search.kind # "ok"
    THEN raise([self EXCEPT !.call.api_called = TRUE], "RequestException")
    ELSE _set_page_content([self EXCEPT !.call.api_called = TRUE,
                                        !.page_title = Some(query \o S_search)],
                           SearchContent(query, search))

\* ------------------------------------------------------------------- fetch
\* f"""Error - Unhandled _fetch_page: ..."""
UnhandledContent(prefix, url, response) ==
    prefix \o url \o S_status_code \o Str(response.status_code)
    \o S_content_type \o response.content_type

\* res = renderer.render_page(...); self.page_title = res.title;
\* self._set_page_content(res.page_content); return
Absorb(self, renderer, res) ==
    IF res.raised # "none"
    THEN raise([self EXCEPT !.call.rendered = <<renderer>>], res.raised)
    ELSE _set_page_content(
             [self EXCEPT !.call.rendered = <<renderer>>,
                          !.call.written = res.written,
                          !.files = IF res.written.some THEN @ \cup {res.written.text} ELSE @,
                          !.page_title = res.title],
             res.page_content)

\* The renderer at index i claimed (i = 0: none did, and the unhandled page is
\* shown); the loop asked the renderers up to it, in list order, and no other.
Claimed(self, renderers, i, prefix, url, reply, uuid) ==
    IF i = 0
    THEN _set_page_content([self EXCEPT !.call.asked = Len(renderers),
                                        !.page_title = Some(S_unhandled_title)],
                           UnhandledContent(prefix, url, reply))
    ELSE Absorb([self EXCEPT !.call.asked = i], renderers[i],
                render_page(renderers[i], reply, url, downloads_folder, HAS_PATHVALIDATE,
                            uuid))

\* One pass of "for renderer in renderers: if renderer.claim_responsibility(...)":
\* the first renderer that claims renders, and its result becomes the page.
Dispatch(self, renderers, dispatch, prefix, url, reply, uuid) ==
    Claimed([self EXCEPT !.call.dispatch = dispatch], renderers,
            FirstClaim(renderers, reply.content_type, downloads_folder),
            prefix, url, reply, uuid)

\* A RequestException without a response reaches the except branch, whose loop
\* reads ex.response.headers of None: AttributeError (with no error renderer the
\* loop is skipped and the unbound response is read: UnboundLocalError).
Fetched(self, url, reply, uuid) ==
    CASE reply.kind = "ok" ->
           Dispatch(self, _page_renderers, "page", S_unhandled, url, reply, uuid)
      [] reply.kind = "http_error" ->
           Dispatch(self, _error_renderers, "error", S_unhandled_error, url, reply, uuid)
      [] OTHER ->
           IF _error_renderers = <<>> THEN raise(self, "UnboundLocalError")
           ELSE raise(self, "AttributeError")

\* response = requests.get(url, **request_kwargs); response.raise_for_status()
requests_get(url, env) == IF RequestsAccepts(url) THEN env.reply ELSE NoReply

Requested(self, url, reply, uuid) ==
    Fetched([self EXCEPT !.call.url = Some(url), !.call.response = ResponseOf(reply)],
            url, reply, uuid)

_fetch_page(self, url, env) == Requested(self, url, requests_get(url, env), env.uuid)

\* ------------------------------------------------------------- set_address
\* self.history[-1] = uri_or_path; self._fetch_page(uri_or_path)
\* A resolution that appends the joined address as a further history entry.
JoinedAppended(self, joined, env) ==
    _fetch_page([self EXCEPT !.history = Append(@, joined)], joined, env)

FetchJoined(self, joined, env) ==
    _fetch_page([self EXCEPT !.history[Len(self.history)] = joined], joined, env)

\* self.address is history[-1], and set_address has appended uri_or_path to the
\* history before it joins: the base of urljoin is the entry just appended.
address(self) == Last(self.history)

\* The branches of set_address, the history entry appended.
Routed(self, uri_or_path, env) ==
    IF uri_or_path = S_about_blank THEN _set_page_content(self, <<>>)
    ELSE IF StartsWith(uri_or_path, S_bing)
    THEN _bing_search(self, Strip(From(uri_or_path, Len(S_bing))), env.search)
    ELSE IF ~StartsWith(uri_or_path, S_http) /\ ~StartsWith(uri_or_path, S_https)
    THEN FetchJoined(self, urljoin(address(self), uri_or_path), env)
    ELSE _fetch_page(self, uri_or_path, env)

\* self.viewport_current_page = 0, which an exception skips.
\* A return that leaves the page index where the new content put it.
IndexKept(self) == self

Returned(self) ==
    IF self.call.raised # "none" THEN self ELSE [self EXCEPT !.viewport_current_page = 0]

set_address(self, uri_or_path, env) ==
    Returned(Routed([self EXCEPT !.history = Append(@, uri_or_path)], uri_or_path, env))

\* ------------------------------------------------------------ construction
\* __init__ calls set_address(start_page) before the renderer lists and the API
\* key exist, so only the default start page "about:blank" constructs a browser;
\* it then registers the default renderers.
AlwaysRegistered ==
    register_page_renderer(
        register_page_renderer(
            register_page_renderer(
                register_page_renderer(<<>>, "FallbackPageRenderer", <<>>),
                "DownloadRenderer", <<>>),
            "HtmlRenderer", <<>>),
        "PlainTextRenderer", <<>>)

\* A construction that registers the downloader last, ahead of every other renderer.
DownloaderOnTop(pdf_capable) ==
    register_page_renderer(
        IF pdf_capable THEN register_page_renderer(
                                register_page_renderer(
                                    register_page_renderer(
                                        register_page_renderer(<<>>, "FallbackPageRenderer", <<>>),
                                        "HtmlRenderer", <<>>),
                                    "PlainTextRenderer", <<>>),
                                "PdfRenderer", <<>>)
        ELSE register_page_renderer(
                 register_page_renderer(
                     register_page_renderer(<<>>, "FallbackPageRenderer", <<>>),
                     "HtmlRenderer", <<>>),
                 "PlainTextRenderer", <<>>),
        "DownloadRenderer", <<>>)

DefaultPageRenderers(pdf_capable) ==
    IF pdf_capable THEN register_page_renderer(AlwaysRegistered, "PdfRenderer", <<>>)
    ELSE AlwaysRegistered

DefaultErrorRenderers == register_error_renderer(<<>>, "FallbackErrorRenderer", <<>>)

Init ==
    /\ viewport_size \in 1..MaxViewport
    /\ downloads_folder \in {None, Some(S_dl)}
    /\ bing_api_key \in {None, Some(S_key)}
    /\ IS_PDF_CAPABLE \in BOOLEAN
    /\ HAS_PATHVALIDATE \in IF Truthy(downloads_folder) THEN BOOLEAN ELSE {TRUE}
    /\ history = <<S_about_blank>>
    /\ page_title = None
    /\ _page_content = <<>>
    /\ viewport_pages = _split_pages(S_about_blank, <<>>, viewport_size)
    /\ viewport_current_page = 0
    /\ _page_renderers = DefaultPageRenderers(IS_PDF_CAPABLE)
    /\ _error_renderers = DefaultErrorRenderers
    /\ files = {}
    /\ call = Call("__init__", S_about_blank)

\* ------------------------------------------------------------------ actions
Addresses == {S_about_blank, U_search, U_page, U_root, U_relative, U_upper}

NoEnv == [reply |-> NoReply, search |-> NoSearch, uuid |-> <<"u", "1">>]

\* The reactions of the outside world a call to set_address can meet.
Environment(uri_or_path, replies) ==
    IF uri_or_path = S_about_blank THEN {NoEnv}
    ELSE IF StartsWith(uri_or_path, S_bing)
    THEN {[NoEnv EXCEPT !.search = s] : s \in SearchReplies}
    ELSE {[NoEnv EXCEPT !.reply = r, !.uuid = u] :
            r \in replies,
            u \in IF Truthy(downloads_folder) /\ ~HAS_PATHVALIDATE THEN Uuids
                  ELSE {<<"u", "1">>}}

Become(self) ==
    /\ history' = self.history
    /\ page_title' = self.page_title
    /\ _page_content' = self.page_content
    /\ viewport_pages' = self.viewport_pages
    /\ viewport_current_page' = self.viewport_current_page
    /\ files' = self.files
    /\ call' = self.call

\* visit_page(path_or_uri): set_address, then the viewport is read.
visit_page(addresses, replies) ==
    /\ Len(history) < MaxHist
    /\ \E uri_or_path \in addresses :
         \E env \in Environment(uri_or_path, replies) :
            Become(set_address(Self("visit_page", uri_or_path), uri_or_path, env))
    /\ UNCHANGED <<config, _page_renderers, _error_renderers>>

Navigate == visit_page(Addresses, Replies)

PageDown ==
    /\ viewport_current_page' = page_down(viewport_current_page, viewport_pages)
    /\ UNCHANGED <<history, page_title, _page_content, viewport_pages, config,
                   _page_renderers, _error_renderers, files, call>>

PageUp ==
    /\ viewport_current_page' = page_up(viewport_current_page)
    /\ UNCHANGED <<history, page_title, _page_content, viewport_pages, config,
                   _page_renderers, _error_renderers, files, call>>

Next == Navigate \/ PageDown \/ PageUp

Spec == Init /\ [][Next]_vars

\* ------------------------------------------------- the renderer registry
\* Callers register renderers of their own after construction and fetch pages.
\* CustomA claims application/zip responses, CustomB every response.
CustomRenderers == {<<"CustomA", S_application_zip>>, <<"CustomB", <<>>>>}

CustomCount ==
    Len(_page_renderers) - Len(DefaultPageRenderers(IS_PDF_CAPABLE))
    + Len(_error_renderers) - Len(DefaultErrorRenderers)

RegisterPageRenderer ==
    /\ CustomCount < MaxCustom
    /\ \E c \in CustomRenderers :
         _page_renderers' = register_page_renderer(_page_renderers, c[1], c[2])
    /\ UNCHANGED <<history, page_title, _page_content, viewport_pages,
                   viewport_current_page, config, _error_renderers, files, call>>

RegisterErrorRenderer ==
    /\ CustomCount < MaxCustom
    /\ \E c \in CustomRenderers :
         _error_renderers' = register_error_renderer(_error_renderers, c[1], c[2])
    /\ UNCHANGED <<history, page_title, _page_content, viewport_pages,
                   viewport_current_page, config, _page_renderers, files, call>>

RegistryReplies ==
    {Reply("ok", 200, ct, Some(DocTitle), FixedText) :
        ct \in {S_text_html, S_Text_Plain, S_application_zip}}
    \cup {Reply("ok", 200, S_text_html, None, FixedText)}
    \cup {Reply("http_error", 404, ct, Some(DocTitle), FixedText) :
            ct \in {S_text_html, S_application_zip}}

Fetch == visit_page({U_page}, RegistryReplies)

RegistryInit == Init /\ viewport_size = MaxViewport /\ bing_api_key = None

RegistryNext == RegisterPageRenderer \/ RegisterErrorRenderer \/ Fetch

RegistrySpec == RegistryInit /\ [][RegistryNext]_vars

\* ------------------------------------------------------------------ claims
\* An address that starts with 'http:' or 'https:'.
IsHttp(a) == StartsWith(a, S_http) \/ StartsWith(a, S_https)

\* An absolute HTTP(S) URL: an http(s) address with a host.
IsAbsoluteHttp(a) == IsHttp(a) /\ RequestsAccepts(a)

\* The address that was current before the last navigation.
Previous == history[Len(history) - 1]

\* The last navigation passed a path set_address resolves.
NavigatedRelative ==
    /\ call.op = "visit_page"
    /\ Len(history) >= 2
    /\ IsAbsoluteHttp(Previous)
    /\ call.arg # S_about_blank
    /\ ~StartsWith(call.arg, S_bing)
    /\ ~IsHttp(call.arg)

\* C1: after a navigation from an absolute HTTP(S) address U to a path R that is
\* neither http(s), about:blank nor a search, the last history entry is R
\* resolved against U, and the fetch was issued for that URL.
C1_RelativeResolution ==
    NavigatedRelative =>
        /\ Last(history) = urljoin(Previous, call.arg)
        /\ call.url = Some(urljoin(Previous, call.arg))

\* C2: every history entry is 'about:blank', a search address or an absolute
\* HTTP(S) URL.
C2_HistoryAddressForm ==
    \A i \in 1..Len(history) :
        \/ history[i] = S_about_blank
        \/ StartsWith(history[i], S_bing)
        \/ IsAbsoluteHttp(history[i])

\* The concatenation of the slices content[start:end] of the ranges.
RECURSIVE PageSlices(_, _)
PageSlices(content, pages) ==
    IF pages = <<>> THEN <<>>
    ELSE SubSeq(content, Head(pages)[1] + 1, Head(pages)[2])
         \o PageSlices(content, Tail(pages))

\* C3: the page ranges are a non-empty list that partitions [0, len(content)):
\* the first starts at 0, each starts where the one before it ends, the last
\* ends at len(content), and the slices concatenated are the content.
C3_PaginationCoverage ==
    /\ Len(viewport_pages) >= 1
    /\ viewport_pages[1][1] = 0
    /\ \A i \in 1..Len(viewport_pages) : viewport_pages[i][1] <= viewport_pages[i][2]
    /\ \A i \in 1..(Len(viewport_pages) - 1) :
          viewport_pages[i][2] = viewport_pages[i + 1][1]
    /\ viewport_pages[Len(viewport_pages)][2] = Len(_page_content)
    /\ PageSlices(_page_content, viewport_pages) = _page_content

\* An HTTP(S) page shown on several viewport pages, the second of them current.
C3_Witness ==
    /\ IsHttp(Last(history))
    /\ call.raised = "none"
    /\ Len(viewport_pages) >= 2
    /\ viewport_current_page >= 1

\* C4: every page range ends at len(content) or right after a whitespace
\* character (content[end - 1] is whitespace).
C4_WordBoundary ==
    \A i \in 1..Len(viewport_pages) :
        \/ viewport_pages[i][2] = Len(_page_content)
        \/ /\ viewport_pages[i][2] >= 1
           /\ _page_content[viewport_pages[i][2]] \in Whitespace

\* An HTTP(S) page with a range before the last that was extended past the
\* viewport size to the next whitespace character.
C4_Witness ==
    /\ IsHttp(Last(history))
    /\ call.raised = "none"
    /\ \E i \in 1..(Len(viewport_pages) - 1) :
          /\ viewport_pages[i][2] - viewport_pages[i][1] > viewport_size
          /\ _page_content[viewport_pages[i][2]] \in Whitespace

\* C5: a fetch that failed with an HTTP error status carrying a response raised
\* nothing, and the page title is 'Error <statusCode>'.
C5_ErrorRenderingNeverThrows ==
    (call.op = "visit_page" /\ call.response.kind = "http_error") =>
        /\ call.raised = "none"
        /\ call.rendered # <<>>
        /\ page_title = Some(S_error \o Str(call.response.status_code))

\* A renderer of the default content list ahead of the downloader claims the
\* content type.
AheadOfDownloader(content_type) ==
    \/ PlainTextRenderer_claim_responsibility(content_type)
    \/ HtmlRenderer_claim_responsibility(content_type)
    \/ (IS_PDF_CAPABLE /\ PdfRenderer_claim_responsibility(content_type))

\* The last navigation fetched a resource successfully with a downloads folder set.
FetchedWithFolder ==
    /\ call.op = "visit_page"
    /\ call.response.kind = "ok"
    /\ Truthy(downloads_folder)

\* The file of the last call lies under the downloads folder and exists.
WrittenUnderFolder ==
    /\ call.written.some
    /\ StartsWith(call.written.text, downloads_folder.text \o <<"/">>)
    /\ call.written.text \in files

SinglePage == viewport_pages = <<<<0, Len(_page_content)>>>>

\* C7 (as stated): whenever the current address does not start with 'http:' or
\* 'https:' (it is about:blank or a search address), the pagination is the
\* single range [0, len(content)), whether or not the search call succeeded.
C7_NonHttpSinglePage ==
    (Last(history) = S_about_blank \/ StartsWith(Last(history), S_bing)) => SinglePage

\* C7 (amended): whenever the current address does not start with 'http:' or
\* 'https:' and the last navigation returned without raising, the pagination
\* is the single range [0, len(content)).
C7_NonHttpSinglePageOnReturn ==
    (~IsHttp(Last(history)) /\ call.raised = "none") => SinglePage

\* A search that succeeded after an HTTP(S) page, its content longer than the
\* viewport and on one page.
C7_Witness ==
    /\ Len(history) >= 3
    /\ IsHttp(Previous)
    /\ StartsWith(Last(history), S_bing)
    /\ call.raised = "none"
    /\ call.api_called
    /\ Len(_page_content) > viewport_size
    /\ SinglePage

\* The renderer list the next state's call was dispatched on.
DispatchedList == IF call'.dispatch = "page" THEN _page_renderers ELSE _error_renderers

\* The renderer invoked claims the response and no renderer of the list that
\* claims it was registered later.
LatestClaimer(renderers, renderer, content_type) ==
    /\ \E i \in 1..Len(renderers) : renderers[i] = renderer
    /\ claim_responsibility(renderer, content_type, downloads_folder)
    /\ \A i \in 1..Len(renderers) :
          claim_responsibility(renderers[i], content_type, downloads_folder)
              => renderers[i].ordinal <= renderer.ordinal

\* The page is the result of the renderer for a response the call can have met.
PageIsResultOf(renderer, title, content, met) ==
    \E reply \in RegistryReplies, uuid \in Uuids :
        /\ ResponseOf(reply) = met.response
        /\ title = render_page(renderer, reply, met.url.text, downloads_folder,
                               HAS_PATHVALIDATE, uuid).title
        /\ content = render_page(renderer, reply, met.url.text, downloads_folder,
                                 HAS_PATHVALIDATE, uuid).page_content

\* C8: a fetch that dispatches a response invokes the renderer of the list that
\* claims it and was registered last among those that do, whether registered at
\* construction or by a caller, and the result of a render that returns becomes
\* the page.
C8_RendererPriorityLIFO ==
    [][(history' # history /\ call'.dispatch # "none") =>
          /\ Len(call'.rendered) = 1
          /\ LatestClaimer(DispatchedList, call'.rendered[1], call'.response.content_type)
          /\ call'.raised = "none" =>
                PageIsResultOf(call'.rendered[1], page_title', _page_content', call')]_vars

\* CustomA was registered, then CustomB; both claim an application/zip response
\* and CustomB rendered the page.
C8_Witness ==
    /\ call.dispatch = "page"
    /\ call.response.content_type = S_application_zip
    /\ call.rendered # <<>>
    /\ call.rendered[1].cls = "CustomB"
    /\ \E i \in 1..Len(_page_renderers) :
          /\ _page_renderers[i].cls = "CustomA"
          /\ _page_renderers[i].ordinal < call.rendered[1].ordinal
    /\ page_title = Some(<<"CustomB">>)

\* C9: the dispatch of a successful response yields a result: a renderer
\* rendered it, nothing was raised, and the page is not the 'Unhandled' page.
C9_DispatchTotality ==
    (call.op = "visit_page" /\ call.response.kind = "ok") =>
        /\ call.rendered # <<>>
        /\ call.raised = "none"
        /\ page_title # Some(S_unhandled_title)

\* C10: the page list is non-empty, the current page index is within it, and
\* the range at the index lies within the content, so the viewport is the slice
\* content[start:end].
C10_PageIndex ==
    /\ Len(viewport_pages) >= 1
    /\ viewport_current_page \in 0..(Len(viewport_pages) - 1)
    /\ 0 <= viewport_pages[viewport_current_page + 1][1]
    /\ viewport_pages[viewport_current_page + 1][1]
          <= viewport_pages[viewport_current_page + 1][2]
    /\ viewport_pages[viewport_current_page + 1][2] <= Len(_page_content)
    /\ Len(viewport(_page_content, viewport_pages, viewport_current_page))
          = viewport_pages[viewport_current_page + 1][2]
            - viewport_pages[viewport_current_page + 1][1]

\* The last page of several is current and a navigation then failed, leaving
\* the index where it was.
C10_Witness ==
    /\ Len(viewport_pages) >= 2
    /\ viewport_current_page = Len(viewport_pages) - 1
    /\ call.op = "visit_page"
    /\ call.raised # "none"

\* The state a page move leaves alone: history, content, title and page ranges.
PageMoveFrame == UNCHANGED <<history, _page_content, page_title, viewport_pages>>

\* C11: page_down raises the page index by exactly 1 unless it is the last
\* page's, page_up lowers it by exactly 1 unless it is 0, at a boundary the
\* call changes nothing, and neither changes history, content, title or the
\* page ranges.
C11_ClampedPageMoves ==
    [][/\ PageDown =>
            /\ viewport_current_page' =
                  IF viewport_current_page = Len(viewport_pages) - 1
                  THEN viewport_current_page ELSE viewport_current_page + 1
            /\ PageMoveFrame
       /\ PageUp =>
            /\ viewport_current_page' =
                  IF viewport_current_page = 0 THEN 0 ELSE viewport_current_page - 1
            /\ PageMoveFrame]_vars

\* A page of at least three viewport pages with the middle one current: reached
\* by a move, with a move possible either way.
C11_Witness ==
    /\ Len(viewport_pages) >= 3
    /\ viewport_current_page >= 1
    /\ viewport_current_page < Len(viewport_pages) - 1

\* A step that is a call of set_address (only a navigation lengthens the history).
Navigated == Len(history') = Len(history) + 1

\* C12: a navigation that returns without raising leaves the page index at 0,
\* so that the viewport read after it is the first page range of the new content.
C12_NavigateResetsIndex ==
    [][(Navigated /\ call'.raised = "none") =>
          /\ viewport_current_page' = 0
          /\ viewport(_page_content', viewport_pages', viewport_current_page')
                = SubSeq(_page_content', 1, viewport_pages'[1][2])]_vars

\* A second navigation returned and shows the first of several pages of an
\* HTTP(S) resource.
C12_Witness ==
    /\ Len(history) = 3
    /\ call.op = "visit_page"
    /\ call.raised = "none"
    /\ call.rendered # <<>>
    /\ Len(viewport_pages) >= 2
    /\ viewport_current_page = 0

\* C13: a fetch of an absolute HTTP(S) URL that fails without a response
\* propagates the transport failure itself (a RequestException) to the caller,
\* no error renderer is asked or invoked and no error page is written.
C13_TransportFailurePropagates ==
    (/\ call.op = "visit_page"
     /\ call.response.kind = "no_response"
     /\ IsAbsoluteHttp(call.url.text)) =>
        /\ call.raised = "RequestException"
        /\ call.dispatch = "none"
        /\ call.rendered = <<>>

\* An address set_address resolves: not about:blank, not a search, not http(s).
NeedsResolution(a) == a # S_about_blank /\ ~StartsWith(a, S_bing) /\ ~IsHttp(a)

\* C14: the history is append-only: a step either leaves it unchanged, as
\* page_up and page_down do, or is a navigation that lengthens it by exactly
\* one entry and keeps every earlier entry; the new entry is the address
\* passed, or for an address that needed resolution the form the same call
\* replaced it by and fetched.
C14_HistoryAppendOnly ==
    [][/\ (PageDown \/ PageUp) => history' = history
       /\ history' # history =>
            /\ Len(history') = Len(history) + 1
            /\ SubSeq(history', 1, Len(history)) = history
            /\ \/ Last(history') = call'.arg
               \/ /\ NeedsResolution(call'.arg)
                  /\ call'.url = Some(Last(history'))]_vars

\* Two navigations made a history of three entries, the last of them rewritten
\* by the call that appended it.
C14_Witness ==
    /\ Len(history) = 3
    /\ history[1] = S_about_blank
    /\ call.op = "visit_page"
    /\ NeedsResolution(call.arg)
    /\ Last(history) # call.arg

\* C15: a navigation to a search address without an API key raises the
\* configuration error (ValueError) before the search API is requested and
\* before title or content are changed.
C15_MissingSearchKey ==
    [][(Navigated /\ StartsWith(call'.arg, S_bing) /\ ~bing_api_key.some) =>
          /\ call'.raised = "ValueError"
          /\ ~call'.api_called
          /\ UNCHANGED <<page_title, _page_content, viewport_pages>>]_vars

\* A search without a key failed while a titled page was shown: the title and
\* the content of that page stay.
C15_Witness ==
    /\ ~bing_api_key.some
    /\ call.op = "visit_page"
    /\ StartsWith(call.arg, S_bing)
    /\ call.raised = "ValueError"
    /\ ~call.api_called
    /\ page_title = Some(DocTitle)

\* The items of a result list in traversal order: each web result, then its
\* deep links, then the next web result.
Item(name, url, text) == [name |-> name, url |-> url, text |-> text]

DeepItems(links) ==
    [k \in 1..Len(links) |-> Item(links[k].name, links[k].url, links[k].snippet.text)]

RECURSIVE WebItems(_)
WebItems(pages) ==
    IF pages = <<>> THEN <<>>
    ELSE <<Item(Head(pages).name, Head(pages).url, Head(pages).snippet)>>
         \o DeepItems(Head(pages).deepLinks) \o WebItems(Tail(pages))

NewsItems(results) == IF results.has_news THEN DeepItems(results.news) ELSE <<>>

\* The items numbered consecutively from first.
Numbered(items, first) ==
    [k \in 1..Len(items) |->
        Snippet(first + k - 1, items[k].name, items[k].url, items[k].text)]

\* The search page with the items numbered 1..N by one running counter and N
\* reported as the number of results.
NumberedPage(query, web, news) ==
    S_bing_found_1 \o query \o S_bing_found_2 \o Str(Len(web) + Len(news))
    \o S_bing_found_3 \o JoinBlank(Numbered(web, 1))
    \o (IF news = <<>> THEN <<>>
        ELSE S_news_results \o JoinBlank(Numbered(news, Len(web) + 1)))

\* The last navigation was a search that returned.
Searched ==
    /\ call.op = "visit_page"
    /\ StartsWith(call.arg, S_bing)
    /\ call.raised = "none"
    /\ Last(history) = call.arg

\* The query of the last navigation.
Query == Strip(From(call.arg, Len(S_bing)))

\* C16: the page of a search numbers the items 1..N consecutively in traversal
\* order, deep links right after their parent, news items after all web items
\* on the same counter, and reports N as the number of results.
C16_SearchNumbering ==
    Searched =>
        \E results \in SearchReplies :
            /\ results.kind = "ok"
            /\ _page_content = NumberedPage(Query, WebItems(results.webPages),
                                            NewsItems(results))
            /\ page_title = Some(Query \o S_search)

\* A search whose result set has a web result with a deep link and a news item:
\* the page numbers them 1, 2, 3 and reports 3 results.
C16_Witness ==
    /\ Searched
    /\ \E results \in SearchReplies :
          /\ results.kind = "ok"
          /\ results.has_news
          /\ Len(WebItems(results.webPages)) = 2
          /\ _page_content = NumberedPage(Query, WebItems(results.webPages),
                                          NewsItems(results))
    /\ Contains(_page_content, <<"3", ".", " ", "[", "N", "]">>)
    /\ Contains(_page_content, <<"f", "o", "u", "n", "d", " ", "3", " ">>)

\* The renderer at position n of the list claims the response and every
\* renderer ahead of it declines.
FirstToClaim(renderers, n, content_type) ==
    /\ n \in 1..Len(renderers)
    /\ claim_responsibility(renderers[n], content_type, downloads_folder)
    /\ \A j \in 1..(n - 1) :
          ~claim_responsibility(renderers[j], content_type, downloads_folder)

\* C17: on each dispatch, on the content or the error list, the renderers are
\* asked in list order up to the first that claims, render_page is invoked on
\* that renderer and no other, every renderer ahead of it declined, and none
\* after it is asked.
C17_FirstClaimWins ==
    [][(Navigated /\ call'.dispatch # "none") =>
          /\ FirstToClaim(DispatchedList, call'.asked, call'.response.content_type)
          /\ call'.rendered = <<DispatchedList[call'.asked]>>]_vars

\* A caller's renderer at the front of the content list declined a text/html
\* response, the default renderers behind it were asked in turn, and
\* HtmlRenderer rendered it with renderers left behind it unasked.
C17_Witness ==
    /\ call.dispatch = "page"
    /\ Len(_page_renderers) >= 1
    /\ _page_renderers[1].cls = "CustomA"
    /\ call.asked >= 3
    /\ call.asked < Len(_page_renderers)
    /\ call.rendered # <<>>
    /\ call.rendered[1].cls = "HtmlRenderer"
    /\ call.rendered[1] = _page_renderers[call.asked]

\* Offset e is a place a page may end: the end of the content, or right after
\* a whitespace character (content[e - 1] in the source's 0-based terms).
PageBreak(content, e) == e = Len(content) \/ (e >= 1 /\ content[e] \in Whitespace)

\* e is the smallest page break at or after the nominal end of a page from start.
MinimalBreak(content, size, start, e) ==
    /\ e >= Min(start + size, Len(content))
    /\ PageBreak(content, e)
    /\ \A k \in Min(start + size, Len(content))..(e - 1) : ~PageBreak(content, k)

\* The current page is an HTTP(S) resource the last navigation fetched and showed.
HttpPageShown ==
    /\ call.op = "visit_page"
    /\ call.raised = "none"
    /\ IsHttp(Last(history))

\* The content of the example: ten letters, a space, six letters.
ExampleContent ==
    <<"a", "b", "c", "d", "e", "f", "g", "h", "i", "j", " ", "k", "l", "m", "n", "o", "p">>

\* C18: for an HTTP(S) page every range [start, end) ends at the smallest
\* offset e >= min(start + viewport_size, len(content)) that is the end of the
\* content or follows a whitespace character; so a range before the last holds
\* at least viewport_size characters, and a range longer than viewport_size has
\* no whitespace from offset start + viewport_size - 1 to end - 2; the content
\* of the example with viewport size 10 splits into [0, 11) and [11, 17).
C18_MinimalExtension ==
    /\ HttpPageShown =>
          \A i \in 1..Len(viewport_pages) :
              /\ MinimalBreak(_page_content, viewport_size,
                              viewport_pages[i][1], viewport_pages[i][2])
              /\ i < Len(viewport_pages) =>
                    viewport_pages[i][2] - viewport_pages[i][1] >= viewport_size
              /\ \A k \in (viewport_pages[i][1] + viewport_size)
                              ..(viewport_pages[i][2] - 1) :
                    _page_content[k] \notin Whitespace
    /\ _split_pages(U_page, ExampleContent, Len(ExampleContent) - 7)
          = <<<<0, Len(ExampleContent) - 6>>, <<Len(ExampleContent) - 6, Len(ExampleContent)>>>>

\* An HTTP(S) page with a range extended past viewport_size and a range before
\* the last of exactly viewport_size characters.
C18_Witness ==
    /\ HttpPageShown
    /\ \E i \in 1..Len(viewport_pages) :
          viewport_pages[i][2] - viewport_pages[i][1] > viewport_size
    /\ \E j \in 1..(Len(viewport_pages) - 1) :
          viewport_pages[j][2] - viewport_pages[j][1] = viewport_size

\* C19: for non-empty content the page-splitting loop ends, every range it
\* emits is non-empty (end > start), and the pages are at most len(content).
C19_PaginationProgress ==
    Len(_page_content) > 0 =>
        /\ \A i \in 1..Len(viewport_pages) : viewport_pages[i][2] > viewport_pages[i][1]
        /\ Len(viewport_pages) <= Len(_page_content)
        /\ (IsHttp(Last(history)) /\ call.raised = "none") =>
              viewport_pages = SplitFrom(_page_content, viewport_size, 0, <<>>)

\* An HTTP(S) page split into as many pages as it has characters, more than one.
C19_Witness ==
    /\ HttpPageShown
    /\ Len(_page_content) >= 2
    /\ Len(viewport_pages) = Len(_page_content)

\* C20: a navigation that raises (no response, no search key, a failed search
\* request, a renderer that raises) leaves content, title, page ranges and page
\* index as they were, while the history keeps the entry appended for the
\* failed address: the address passed, or the form the call resolved it to.
C20_FailingNavigate ==
    [][(Navigated /\ call'.raised # "none") =>
          /\ UNCHANGED <<_page_content, page_title, viewport_pages,
                         viewport_current_page, files>>
          /\ SubSeq(history', 1, Len(history)) = history
          /\ \/ Last(history') = call'.arg
             \/ /\ NeedsResolution(call'.arg)
                /\ call'.url = Some(Last(history'))]_vars

\* A renderer raised while the second viewport page of a titled page was
\* current: that page, its title and the index stay, under the new address.
C20_Witness ==
    /\ Len(history) = 3
    /\ call.op = "visit_page"
    /\ call.raised # "none"
    /\ call.rendered # <<>>
    /\ Last(history) = call.arg
    /\ page_title.some
    /\ _page_content # <<>>
    /\ viewport_current_page >= 1
====
